---- MODULE Spec2Model ----
(***************************************************************************)
(* The UN/LOCODE organisation-code pipeline of UNLOCODE.py: the directory  *)
(* lookup (simulate_research_agent), the company abbreviation              *)
(* (generate_company_abbreviation), the assembly (simulate_lookup_agent),  *)
(* the confirmation (simulate_critic_agent) and their sequencing           *)
(* (lead_agent_orchestrate).                                               *)
(*                                                                         *)
(* A Python str is a sequence of one-character strings; every str method   *)
(* the code calls is an operator on such sequences.                        *)
(***************************************************************************)
EXTENDS Naturals, Sequences, FiniteSets

VARIABLES
    db,            \* UNLOCODE_DB, the module-level directory
    country,       \* selected_country
    city,          \* city_input
    company_name,  \* company_name_input
    pc,            \* position inside lead_agent_orchestrate
    unlocode,      \* result of simulate_research_agent
    company_abbr,  \* result of generate_company_abbreviation
    location_code, \* the segment simulate_lookup_agent extracts
    org_code,      \* company_abbr + location_code
    critique,      \* result of simulate_critic_agent
    final_output,  \* the dict lead_agent_orchestrate returns
    first,         \* inputs and output of the first completed request
    runs           \* requests started so far

vars == <<db, country, city, company_name, pc, unlocode, company_abbr,
          location_code, org_code, critique, final_output, first, runs>>

(***************************************************************************)
(* Bounds of the explored inputs.                                          *)
(***************************************************************************)
\* longest run of blanks put before or after a city
MaxPad == 1
\* longest company name enumerated character by character
MaxNameLen == 5
\* longest word, and largest number of words, of the long company names
MaxWordLen == 7
MaxWords == 4
\* longest location code handed to the lookup agent on its own
MaxCodeLen == 6
\* requests one session makes
MaxRuns == 3

(***************************************************************************)
(* Python str primitives.                                                  *)
(***************************************************************************)
Lowers == <<"a","b","c","d","e","f","g","h","i","j","k","l","m",
            "n","o","p","q","r","s","t","u","v","w","x","y","z">>
Uppers == <<"A","B","C","D","E","F","G","H","I","J","K","L","M",
            "N","O","P","Q","R","S","T","U","V","W","X","Y","Z">>

\* the characters str.isspace() accepts, among those the model uses
Whitespace == {" ", "\t", "\n"}

LowerSet == {Lowers[i] : i \in 1..26}
UpperSet == {Uppers[i] : i \in 1..26}
CapitalOf == [c \in LowerSet |-> Uppers[CHOOSE i \in 1..26 : Lowers[i] = c]]
SmallOf == [c \in UpperSet |-> Lowers[CHOOSE i \in 1..26 : Uppers[i] = c]]

\* str.upper() of one character: a cased letter maps to its capital, the
\* sharp s to two letters (Unicode's full mapping), anything else to itself
UpperChar(c) ==
    IF c \in LowerSet THEN <<CapitalOf[c]>>
    ELSE IF c = "ß" THEN <<"S", "S">>
    ELSE <<c>>

\* str.lower() of one character
LowerChar(c) ==
    IF c \in UpperSet THEN <<SmallOf[c]>>
    ELSE <<c>>

RECURSIVE str_upper(_)
str_upper(s) ==
    IF s = <<>> THEN <<>> ELSE UpperChar(Head(s)) \o str_upper(Tail(s))

RECURSIVE str_lower(_)
str_lower(s) ==
    IF s = <<>> THEN <<>> ELSE LowerChar(Head(s)) \o str_lower(Tail(s))

\* s[:k]
Take(s, k) == SubSeq(s, 1, IF k < Len(s) THEN k ELSE Len(s))

\* s[-k:]
Last(s, k) == SubSeq(s, IF k < Len(s) THEN Len(s) - k + 1 ELSE 1, Len(s))

RECURSIVE str_lstrip(_)
str_lstrip(s) ==
    IF s # <<>> /\ Head(s) \in Whitespace THEN str_lstrip(Tail(s)) ELSE s

RECURSIVE str_rstrip(_)
str_rstrip(s) ==
    IF s # <<>> /\ s[Len(s)] \in Whitespace
    THEN str_rstrip(SubSeq(s, 1, Len(s) - 1))
    ELSE s

\* s.strip()
str_strip(s) == str_rstrip(str_lstrip(s))

\* a in b, for two strs
str_in(a, b) ==
    \E i \in 0..Len(b) : i + Len(a) <= Len(b) /\ SubSeq(b, i + 1, i + Len(a)) = a

\* s.replace(" ", "")
RECURSIVE str_replace_space(_)
str_replace_space(s) ==
    IF s = <<>> THEN <<>>
    ELSE IF Head(s) = " " THEN str_replace_space(Tail(s))
    ELSE <<Head(s)>> \o str_replace_space(Tail(s))

\* s.split(" ") : every single space separates, empty words are kept
RECURSIVE SplitOnSpace(_, _)
SplitOnSpace(s, word) ==
    IF s = <<>> THEN <<word>>
    ELSE IF Head(s) = " " THEN <<word>> \o SplitOnSpace(Tail(s), <<>>)
    ELSE SplitOnSpace(Tail(s), Append(word, Head(s)))

str_split_sep(s) == SplitOnSpace(s, <<>>)

\* s.split() : runs of whitespace separate, no word is empty
RECURSIVE SplitWords(_, _)
SplitWords(s, word) ==
    IF s = <<>> THEN (IF word = <<>> THEN <<>> ELSE <<word>>)
    ELSE IF Head(s) \in Whitespace
    THEN (IF word = <<>> THEN <<>> ELSE <<word>>) \o SplitWords(Tail(s), <<>>)
    ELSE SplitWords(Tail(s), Append(word, Head(s)))

str_split(s) == SplitWords(s, <<>>)

(***************************************************************************)
(* The directory.                                                          *)
(***************************************************************************)
France == <<"F","r","a","n","c","e">>
UnitedStates == <<"U","n","i","t","e","d"," ","S","t","a","t","e","s">>
Germany == <<"G","e","r","m","a","n","y">>
China == <<"C","h","i","n","a">>

MARSEILLE == <<"M","A","R","S","E","I","L","L","E">>
MARSEILLE_EN_BEAUVAISIS ==
    <<"M","A","R","S","E","I","L","L","E","-","E","N","-",
      "B","E","A","U","V","A","I","S","I","S">>
NEW_YORK == <<"N","E","W"," ","Y","O","R","K">>
LOS_ANGELES == <<"L","O","S"," ","A","N","G","E","L","E","S">>
BERLIN == <<"B","E","R","L","I","N">>
BEIJING == <<"B","E","I","J","I","N","G">>
SHANGHAI == <<"S","H","A","N","G","H","A","I">>

Entry(k, c) == [key |-> k, code |-> c]

\* a dict keeps insertion order: a country's cities are a sequence
UNLOCODE_DB ==
    << [country |-> France,
        cities  |-> << Entry(MARSEILLE, <<"F","R","M","R","S">>),
                       Entry(MARSEILLE_EN_BEAUVAISIS, <<"F","R","M","B","E">>) >>],
       [country |-> UnitedStates,
        cities  |-> << Entry(NEW_YORK, <<"U","S","N","Y","C">>),
                       Entry(LOS_ANGELES, <<"U","S","L","A","X">>) >>],
       [country |-> Germany,
        cities  |-> << Entry(BERLIN, <<"D","E","B","E","R">>) >>],
       [country |-> China,
        cities  |-> << Entry(BEIJING, <<"C","N","B","J","S">>),
                       Entry(SHANGHAI, <<"C","N","S","H","A">>) >>] >>

UNK00 == <<"U","N","K","0","0">>
UNK == <<"U","N","K">>

\* UNLOCODE_DB.get(country, {})
DbGet(d, c) ==
    IF \E i \in 1..Len(d) : d[i].country = c
    THEN d[CHOOSE i \in 1..Len(d) : d[i].country = c].cities
    ELSE <<>>

\* the for loop of simulate_research_agent over country_data.items()
RECURSIVE ScanItems(_, _)
ScanItems(items, city_upper) ==
    IF items = <<>> THEN UNK00
    ELSE IF str_upper(Head(items).key) = city_upper
            \/ str_in(city_upper, str_upper(Head(items).key))
    THEN Head(items).code
    ELSE ScanItems(Tail(items), city_upper)

Reverse(s) == [i \in 1..Len(s) |-> s[Len(s) + 1 - i]]

\* city.upper().strip()
NormalizeCity(c) == str_strip(str_upper(c))

\* the lookup with the strip() left out
ResearchWithoutStrip(d, c, ct) == ScanItems(DbGet(d, c), str_upper(ct))

\* the lookup scanning the items from the last to the first
ResearchLastMatch(d, c, ct) == ScanItems(Reverse(DbGet(d, c)), NormalizeCity(ct))

\* the lookup with the containment test left out
RECURSIVE ScanItemsExact(_, _)
ScanItemsExact(items, city_upper) ==
    IF items = <<>> THEN UNK00
    ELSE IF str_upper(Head(items).key) = city_upper THEN Head(items).code
    ELSE ScanItemsExact(Tail(items), city_upper)

ResearchExactOnly(d, c, ct) == ScanItemsExact(DbGet(d, c), NormalizeCity(ct))

simulate_research_agent(d, c, ct) == ScanItems(DbGet(d, c), NormalizeCity(ct))

(***************************************************************************)
(* The abbreviation, the assembly and the confirmation.                    *)
(***************************************************************************)
\* words[2][0] raises IndexError on an empty third word
AbbreviationRaises(name) ==
    LET words == str_split(name)
    IN  Len(words) >= 3 /\ Len(words[3]) = 0

\* the abbreviation with the three-word rule applied from four words on
AbbreviationFromFourWords(name) ==
    LET words == str_split(name)
    IN  IF Len(words) >= 4
        THEN str_upper(Take(words[1], 3)) \o str_upper(Take(words[2], 3))
                 \o str_upper(<<words[3][1]>>)
        ELSE IF Len(words) >= 2
        THEN str_upper(Take(words[1], 3)) \o str_upper(Take(words[2], 3))
        ELSE str_upper(Take(str_replace_space(name), 6))

\* the abbreviation sliced but not uppercased
AbbreviationNotUppercased(name) ==
    LET words == str_split(name)
    IN  IF Len(words) >= 3
        THEN Take(words[1], 3) \o Take(words[2], 3) \o <<words[3][1]>>
        ELSE IF Len(words) = 2
        THEN Take(words[1], 3) \o Take(words[2], 3)
        ELSE Take(str_replace_space(name), 6)

generate_company_abbreviation(name) ==
    LET words == str_split(name)
    IN  IF Len(words) >= 3
        THEN str_upper(Take(words[1], 3)) \o str_upper(Take(words[2], 3))
                 \o str_upper(<<words[3][1]>>)
        ELSE IF Len(words) = 2
        THEN str_upper(Take(words[1], 3)) \o str_upper(Take(words[2], 3))
        ELSE str_upper(Take(str_replace_space(name), 6))

\* the segment taken as the first three characters
LocationSegmentFromFront(code) == IF Len(code) >= 5 THEN Take(code, 3) ELSE UNK

\* the location segment simulate_lookup_agent extracts
LocationSegment(code) == IF Len(code) >= 5 THEN Last(code, 3) ELSE UNK

\* simulate_lookup_agent's org_code
OrgCode(abbr, segment) == abbr \o segment

\* simulate_critic_agent's f-string
simulate_critic_agent(code) ==
    <<"Validated: The Organization Code '", code,
      "' is correctly generated based on the UNLOCODE data.">>

\* a local not yet assigned: no str equals it
None == <<"None">>

\* final_data before the orchestrator returned
NoOutput ==
    [country |-> None, city |-> None, company_name |-> None, unlocode |-> None,
     company_abbr |-> None, location_code |-> None, org_code |-> None,
     critique |-> None]

\* no request completed yet
NoRequest ==
    [country |-> None, city |-> None, company_name |-> None, output |-> NoOutput]

(***************************************************************************)
(* lead_agent_orchestrate, one action per stage.                           *)
(***************************************************************************)
\* the lookup taking the entry it returns out of the directory
ResearchConsuming ==
    LET found == simulate_research_agent(db, country, city)
    IN  /\ pc = "Start"
        /\ unlocode' = found
        /\ db' = [i \in 1..Len(db) |->
                     [country |-> db[i].country,
                      cities  |-> SelectSeq(db[i].cities,
                                            LAMBDA e : e.code # found)]]
        /\ pc' = "Resolved"
        /\ UNCHANGED <<country, city, company_name, company_abbr, location_code,
                       org_code, critique, final_output, first, runs>>

\* unlocode = simulate_research_agent(country, city)
Research ==
    /\ pc = "Start"
    /\ unlocode' = simulate_research_agent(db, country, city)
    /\ pc' = "Resolved"
    /\ UNCHANGED <<db, country, city, company_name, company_abbr, location_code,
                   org_code, critique, final_output, first, runs>>

\* company_abbr = generate_company_abbreviation(company_name)
Abbreviate ==
    /\ pc = "Resolved"
    /\ IF AbbreviationRaises(company_name)
       THEN /\ pc' = "Raised"
            /\ UNCHANGED company_abbr
       ELSE /\ pc' = "Abbreviated"
            /\ company_abbr' = generate_company_abbreviation(company_name)
    /\ UNCHANGED <<db, country, city, company_name, unlocode, location_code,
                   org_code, critique, final_output, first, runs>>

\* the rest of simulate_lookup_agent: the segment and the concatenation
Assemble ==
    /\ pc = "Abbreviated"
    /\ location_code' = LocationSegment(unlocode)
    /\ org_code' = OrgCode(company_abbr, location_code')
    /\ pc' = "Assembled"
    /\ UNCHANGED <<db, country, city, company_name, unlocode, company_abbr,
                   critique, final_output, first, runs>>

\* critique = simulate_critic_agent(org_code)
Critic ==
    /\ pc = "Assembled"
    /\ critique' = simulate_critic_agent(org_code)
    /\ pc' = "Validated"
    /\ UNCHANGED <<db, country, city, company_name, unlocode, company_abbr,
                   location_code, org_code, final_output, first, runs>>

\* the final_output dict
FinalOutput ==
    [country |-> country, city |-> str_upper(city), company_name |-> company_name,
     unlocode |-> unlocode, company_abbr |-> company_abbr,
     location_code |-> location_code, org_code |-> org_code,
     critique |-> critique]

Aggregate ==
    /\ pc = "Validated"
    /\ final_output' = FinalOutput
    /\ pc' = "Done"
    /\ first' = IF first = NoRequest
                THEN [country |-> country, city |-> city,
                      company_name |-> company_name, output |-> FinalOutput]
                ELSE first
    /\ UNCHANGED <<db, country, city, company_name, unlocode, company_abbr,
                   location_code, org_code, critique, runs>>

NextPipeline == Research \/ Abbreviate \/ Assemble \/ Critic \/ Aggregate

(***************************************************************************)
(* The form: a new request once the previous one is displayed.             *)
(***************************************************************************)
TEST_BY_KALAI == <<"T","E","S","T"," ","B","Y"," ","K","A","L","A","I">>
Atlantis == <<"A","t","l","a","n","t","i","s">>
PARIS == <<"P","A","R","I","S">>

PipelineCountries == {France, Atlantis}
PipelineCities == {str_lower(MARSEILLE), <<>>, PARIS}
PipelineNames ==
    { <<>>, <<" ">>, <<"a">>, <<"a"," ","b"," ">>, TEST_BY_KALAI,
      <<"A","c","m","e"," ","G","l","o","b","a","l"," ","L","o","g","i","s","t","i","c","s">>,
      <<"A","c","m","e"," ","G","l","o","b","a","l">>,
      <<"A","c","m","e","c","o","r","p">> }

\* the button pressed again, with whatever the three widgets then hold
NewRequest ==
    /\ pc = "Done"
    /\ runs < MaxRuns
    /\ runs' = runs + 1
    /\ country' \in PipelineCountries
    /\ city' \in PipelineCities
    /\ company_name' \in PipelineNames
    /\ pc' = "Start"
    /\ unlocode' = None
    /\ company_abbr' = None
    /\ location_code' = None
    /\ org_code' = None
    /\ critique' = None
    /\ final_output' = NoOutput
    /\ UNCHANGED <<db, first>>

NextRuns == NextPipeline \/ NewRequest

(***************************************************************************)
(* Inputs.                                                                 *)
(***************************************************************************)
Substrings(s) == {SubSeq(s, i, j) : i \in 1..(Len(s) + 1), j \in 0..Len(s)}

StoredKeys ==
    UNION { {UNLOCODE_DB[i].cities[j].key : j \in 1..Len(UNLOCODE_DB[i].cities)} :
            i \in 1..Len(UNLOCODE_DB) }

Blanks(n) == [i \in 1..n |-> " "]
Pads == {Blanks(n) : n \in 0..MaxPad} \cup {<<"\t">>}

Capitalize(s) == IF s = <<>> THEN s ELSE <<Head(s)>> \o str_lower(Tail(s))
CaseVariants(s) == {s, str_lower(s), Capitalize(s)}

\* what is typed as a city: every part of every stored key, every stored key
\* with a letter too many and a city of no country, in three letter cases
CityCores ==
    UNION {Substrings(k) : k \in StoredKeys}
        \cup {k \o <<"S">> : k \in StoredKeys} \cup {PARIS}
CityTexts == UNION {CaseVariants(c) : c \in CityCores}
CityInputs == {l \o t \o r : l \in Pads, t \in CityTexts, r \in Pads}

Countries == {France, UnitedStates, Germany, China, str_lower(France), Atlantis}

Fresh ==
    /\ pc = "Start"
    /\ unlocode = None
    /\ company_abbr = None
    /\ location_code = None
    /\ org_code = None
    /\ critique = None
    /\ final_output = NoOutput
    /\ first = NoRequest
    /\ runs = 1

InitResolve ==
    /\ db = UNLOCODE_DB
    /\ country \in Countries
    /\ city \in CityInputs
    /\ company_name = TEST_BY_KALAI
    /\ Fresh

NextResolve == Research

SpecResolve == InitResolve /\ [][NextResolve]_vars

InitPipeline ==
    /\ db = UNLOCODE_DB
    /\ country \in PipelineCountries
    /\ city \in PipelineCities
    /\ company_name \in PipelineNames
    /\ Fresh

SpecPipeline == InitPipeline /\ [][NextPipeline]_vars /\ WF_vars(NextPipeline)

SpecRuns == InitPipeline /\ [][NextRuns]_vars

\* the directory with each country's keys in either order of insertion
DirectoryOrders ==
    { UNLOCODE_DB,
      [i \in 1..Len(UNLOCODE_DB) |->
          [country |-> UNLOCODE_DB[i].country,
           cities  |-> Reverse(UNLOCODE_DB[i].cities)]] }

InitDirectory ==
    /\ db \in DirectoryOrders
    /\ country \in Countries
    /\ city \in CityInputs
    /\ company_name = TEST_BY_KALAI
    /\ Fresh

SpecDirectory == InitDirectory /\ [][NextResolve]_vars

(***************************************************************************)
(* The directory lookup.                                                   *)
(***************************************************************************)
FRMRS == <<"F","R","M","R","S">>
FRMBE == <<"F","R","M","B","E">>

\* the stored key equals or contains the city once trimmed and uppercased
KeyMatches(key, ct) ==
    \/ str_upper(key) = str_strip(str_upper(ct))
    \/ str_in(str_strip(str_upper(ct)), str_upper(key))

Min(S) == CHOOSE x \in S : \A y \in S : x <= y

IsBlank(s) == \A i \in 1..Len(s) : s[i] \in Whitespace

C3_SentinelIffNoMatch ==
    pc = "Resolved" =>
        LET items == DbGet(db, country)
            known == \E i \in 1..Len(db) : db[i].country = country
            matched == \E i \in 1..Len(items) : KeyMatches(items[i].key, city)
        IN  IF ~known \/ ~matched
            THEN unlocode = UNK00
            ELSE /\ unlocode # UNK00
                 /\ \E i \in 1..Len(items) : unlocode = items[i].code

C3_Witness ==
    /\ pc = "Resolved"
    /\ country = France
    /\ city = BERLIN \o <<" ">>
    /\ unlocode = UNK00

\* the same text in another letter case
CaseChanges(s) == {str_lower(s), str_upper(s), Capitalize(str_upper(s))}

\* the same city with whitespace added before and after
PadChanges(s) == {<<" ">> \o s, s \o <<" ">>, <<"\t", " ">> \o s \o <<" ", "\n">>}

\* C4 as stated: the lookup's result does not change when the letter case of
\* the country or of the city changes, or when whitespace is added around the
\* city.
C4_CountryAndCityNormalized ==
    pc = "Resolved" =>
        /\ \A c \in CaseChanges(country) :
               simulate_research_agent(db, c, city) = unlocode
        /\ \A t \in CaseChanges(city) \cup PadChanges(city) :
               simulate_research_agent(db, country, t) = unlocode

\* C4 as amended: the lookup's result does not change when the letter case of
\* the city changes or when whitespace is added around the city; the country
\* is looked up as given.
C4_CityNormalized ==
    pc = "Resolved" =>
        \A t \in CaseChanges(city) \cup PadChanges(city) :
            simulate_research_agent(db, country, t) = unlocode

C4_Witness ==
    /\ pc = "Resolved"
    /\ country = France
    /\ city = <<" ">> \o str_lower(MARSEILLE) \o <<" ">>
    /\ unlocode = FRMRS

\* C10: the lookup returns the code of the first key, in table order, that
\* equals or contains the normalised city; a blank city with a known country
\* therefore gets the code of the country's first key.
C10_FirstMatchWins ==
    pc = "Resolved" =>
        LET items == DbGet(db, country)
            hits == {i \in 1..Len(items) : KeyMatches(items[i].key, city)}
        IN  /\ hits # {} => unlocode = items[Min(hits)].code
            /\ (items # <<>> /\ IsBlank(city)) => unlocode = items[1].code

C10_Witness ==
    /\ pc = "Resolved"
    /\ country = France
    /\ city = <<"\t">>
    /\ Cardinality({i \in 1..2 : KeyMatches(DbGet(db, country)[i].key, city)}) = 2
    /\ unlocode = FRMRS

(***************************************************************************)
(* Company names and location codes given to the pure stages.              *)
(***************************************************************************)
RECURSIVE StringsUpTo(_, _)
StringsUpTo(chars, n) ==
    IF n = 0 THEN {<<>>}
    ELSE LET shorter == StringsUpTo(chars, n - 1)
         IN  shorter \cup {Append(t, c) : t \in shorter, c \in chars}

NameChars == {"a", "B", " ", "\t", "ß"}
ShortNames == StringsUpTo(NameChars, MaxNameLen)

WordText == <<"a","c","m","e","c","o","r","p","o","r","a","t","i","o","n">>
Word(k) == SubSeq(WordText, 1, k)

\* names of one to n words, each a beginning of WordText, one space apart
RECURSIVE WordNames(_)
WordNames(n) ==
    IF n = 0 THEN {}
    ELSE LET fewer == WordNames(n - 1)
         IN  {Word(k) : k \in 1..MaxWordLen} \cup fewer
                 \cup {t \o <<" ">> \o Word(k) : t \in fewer, k \in 1..MaxWordLen}

CompanyNames == ShortNames \cup WordNames(MaxWords)

InitAbbreviation ==
    /\ db = UNLOCODE_DB
    /\ country = France
    /\ city = MARSEILLE
    /\ company_name \in CompanyNames
    /\ Fresh

NextAbbreviation == Research \/ Abbreviate

SpecAbbreviation == InitAbbreviation /\ [][NextAbbreviation]_vars

CodeChars == {"F", "R", "0"}
LocationCodes == StringsUpTo(CodeChars, MaxCodeLen) \cup {FRMRS, FRMBE, UNK00}

\* simulate_lookup_agent called on its own with any location code
InitAssemble ==
    /\ db = UNLOCODE_DB
    /\ country = France
    /\ city = MARSEILLE
    /\ company_name \in PipelineNames
    /\ pc = "Resolved"
    /\ unlocode \in LocationCodes
    /\ company_abbr = None
    /\ location_code = None
    /\ org_code = None
    /\ critique = None
    /\ final_output = NoOutput
    /\ first = NoRequest
    /\ runs = 1

NextAssemble == Abbreviate \/ Assemble

SpecAssemble == InitAssemble /\ [][NextAssemble]_vars

(***************************************************************************)
(* The abbreviation.                                                       *)
(***************************************************************************)
\* the words of a name, read off the positions where a word starts and ends
WordStarts(name) ==
    {i \in 1..Len(name) :
        name[i] \notin Whitespace /\ (i = 1 \/ name[i - 1] \in Whitespace)}
WordEnds(name) ==
    {i \in 1..Len(name) :
        name[i] \notin Whitespace /\ (i = Len(name) \/ name[i + 1] \in Whitespace)}
Nth(S, k) == CHOOSE i \in S : Cardinality({j \in S : j < i}) = k - 1
WordAt(name, k) == SubSeq(name, Nth(WordStarts(name), k), Nth(WordEnds(name), k))
WordCount(name) == Cardinality(WordStarts(name))

Prefix(w, k) == [i \in 1..(IF Len(w) < k THEN Len(w) ELSE k) |-> w[i]]
WithoutSpaces(name) == SelectSeq(name, LAMBDA c : c # " ")

\* the rule of the specification
ReferenceAbbreviation(name) ==
    IF WordCount(name) >= 3
    THEN str_upper(Prefix(WordAt(name, 1), 3) \o Prefix(WordAt(name, 2), 3)
                       \o Prefix(WordAt(name, 3), 1))
    ELSE IF WordCount(name) = 2
    THEN str_upper(Prefix(WordAt(name, 1), 3) \o Prefix(WordAt(name, 2), 3))
    ELSE str_upper(Prefix(WithoutSpaces(name), 6))

\* C5: for a name of at least one word the abbreviation is the reference
\* rule's: three letters of the first two words and one of the third, or the
\* first six characters of a one-word name without its spaces, uppercased.
C5_MatchesReferenceRule ==
    (pc = "Abbreviated" /\ WordCount(company_name) >= 1) =>
        company_abbr = ReferenceAbbreviation(company_name)

C5_Witness ==
    /\ pc = "Abbreviated"
    /\ company_name = <<"a", " ", "B", " ", "ß">>
    /\ company_abbr = <<"A", "B", "S", "S">>

\* C6 as stated: the abbreviation of a non-empty name has 3 to 7 characters
\* and is its own uppercase form.
C6_LengthThreeToSeven ==
    (pc = "Abbreviated" /\ company_name # <<>>) =>
        /\ Len(company_abbr) >= 3
        /\ Len(company_abbr) <= 7
        /\ str_upper(company_abbr) = company_abbr

\* no character of the name becomes several characters when uppercased
SameLengthUppercase(name) == \A i \in 1..Len(name) : Len(UpperChar(name[i])) = 1

\* C6 as amended: the abbreviation of a non-empty name is its own uppercase
\* form; it has at most 7 characters when no character of the name lengthens
\* under uppercasing, and at least 1 when the name is not all whitespace.
C6_LengthAtMostSeven ==
    (pc = "Abbreviated" /\ company_name # <<>>) =>
        /\ str_upper(company_abbr) = company_abbr
        /\ SameLengthUppercase(company_name) => Len(company_abbr) <= 7
        /\ ~IsBlank(company_name) => Len(company_abbr) >= 1

C6_Witness ==
    /\ pc = "Abbreviated"
    /\ company_name = Word(4) \o <<" ">> \o Word(6) \o <<" ">> \o Word(7)
    /\ Len(company_abbr) = 7

(***************************************************************************)
(* The assembly.                                                           *)
(***************************************************************************)
ACMGLOL == <<"A","C","M","G","L","O","L">>

\* C7: the segment is the last three characters of a location code of five
\* characters or more and "UNK" otherwise; the organisation code is the
\* abbreviation followed by the segment, three characters longer than it.
C7_AssembleContract ==
    pc = "Assembled" =>
        /\ Len(unlocode) >= 5 =>
              /\ Len(location_code) = 3
              /\ \A i \in 1..3 : location_code[i] = unlocode[Len(unlocode) - 3 + i]
        /\ Len(unlocode) < 5 => location_code = UNK
        /\ Len(org_code) = Len(company_abbr) + 3
        /\ SubSeq(org_code, 1, Len(company_abbr)) = company_abbr
        /\ SubSeq(org_code, Len(company_abbr) + 1, Len(org_code)) = location_code

C7_Witness ==
    /\ pc = "Assembled"
    /\ unlocode = FRMRS
    /\ company_abbr = ACMGLOL
    /\ org_code = ACMGLOL \o <<"M", "R", "S">>
    /\ location_code = <<"M", "R", "S">>

(***************************************************************************)
(* The orchestration.                                                      *)
(***************************************************************************)
\* C2: a request whose lookup returned "UNK00" ends with the segment "UNK"
\* and the organisation code company_abbr + "UNK" in its result.
C2_UnresolvedShowsUNK ==
    (pc = "Done" /\ unlocode = UNK00) =>
        /\ final_output.location_code = UNK
        /\ final_output.org_code = company_abbr \o UNK

StageAfter ==
    [Start |-> "Resolved", Resolved |-> "Abbreviated", Abbreviated |-> "Assembled",
     Assembled |-> "Validated", Validated |-> "Done", Done |-> "Done"]

\* one step of a request: the next stage, fed by the stages before it
StageStep ==
    /\ pc # "Done"
    /\ pc' = StageAfter[pc]
    /\ <<country, city, company_name>>' = <<country, city, company_name>>
    /\ pc = "Start" => unlocode' \in {UNK00} \cup {e.code : e \in
                            {DbGet(db, country)[i] : i \in 1..Len(DbGet(db, country))}}
    /\ pc # "Start" => unlocode' = unlocode
    /\ pc = "Abbreviated" =>
          /\ location_code' = (IF Len(unlocode) >= 5 THEN Last(unlocode, 3) ELSE UNK)
          /\ org_code' = company_abbr \o location_code'
    /\ pc = "Assembled" => critique'[2] = org_code
    /\ pc = "Validated" =>
          final_output' =
              [country |-> country, city |-> str_upper(city),
               company_name |-> company_name, unlocode |-> unlocode,
               company_abbr |-> company_abbr, location_code |-> location_code,
               org_code |-> org_code, critique |-> critique]

\* C8: every request passes Start, Resolved, Abbreviated, Assembled, Validated
\* and Done in that order, each stage reading what the one before produced,
\* never raising, and reaches Done with the stage outputs and the uppercased
\* city in its result, whatever the country, the city and the company name.
C8_StagesInOrder ==
    /\ [][StageStep]_vars
    /\ [](pc \in DOMAIN StageAfter)
    /\ (pc = "Start") ~> (pc = "Done" /\ final_output.city = str_upper(city))

C8_Witness ==
    /\ pc = "Done"
    /\ country = Atlantis
    /\ city = str_lower(MARSEILLE)
    /\ company_name = <<" ">>
    /\ final_output.city = MARSEILLE
    /\ final_output.unlocode = UNK00
    /\ final_output.company_abbr = <<>>

TESBYKMRS == <<"T","E","S","B","Y","K","M","R","S">>

\* C9: the directory keeps its initial contents whatever requests were made,
\* and a request with the inputs of the session's first request returns the
\* same result, field by field.
C9_NoHiddenState ==
    /\ db = UNLOCODE_DB
    /\ (/\ pc = "Done"
        /\ country = first.country
        /\ city = first.city
        /\ company_name = first.company_name) => final_output = first.output

C9_Witness ==
    /\ pc = "Done"
    /\ runs = 3
    /\ country = first.country
    /\ city = first.city
    /\ company_name = first.company_name
    /\ country = France
    /\ company_name = TEST_BY_KALAI
    /\ final_output.org_code = TESBYKMRS
    /\ final_output = first.output

====
